---------------------------- MODULE Spec2Model ----------------------------
(***************************************************************************)
(* A model of the SFTP front end of the object-storage server: the request *)
(* decoders, and one SSH connection served by DraySshServer (lib.rs) with  *)
(* its SftpSession.                                                        *)
(*                                                                         *)
(* Bytes are naturals below 256, buffers and strings are sequences of      *)
(* bytes.  Decoders return [err, req]: err = "None" on success.            *)
(***************************************************************************)
EXTENDS Integers, Sequences, FiniteSets, TLC

VARIABLES
    \* ---- the decoder under test (specification SpecCodec)
    decoder,      \* which try_from is applied
    original,     \* the request the buffer was encoded from
    buffer,       \* the bytes handed to try_from
    decoded,      \* the result of try_from
    codecPc,      \* "input" before the call, "decoded" after it
    \* ---- one connection: a DraySshServer handler and its transport
    pc,           \* "idle", "handling" (data() suspended in handle_request), "closed"
    sftp_session, \* DraySshServer::sftp_session: NoSession or [user]
    handles,      \* the session's handle table: handle string -> entry
    streams,      \* the storage resource bound to each open handle
    nextHandle,   \* the handle generator
    started,      \* data frames handed to Handler::data
    out,          \* the frame numbers of the payloads given to session.data, in order
    frame,        \* the bytes of the frame last handed to Handler::data
    request,      \* Request::try_from of that frame
    resp,         \* the payload last given to session.data
    storageCalled,\* whether handling the last frame called storage
    auths,        \* auth_publickey calls so far
    authResult,   \* what the last auth_publickey returned
    \* ---- history of the current session
    created,      \* handle string -> kind, for every handle the session issued
    issuedCount,  \* successful Open / Opendir requests of the session
    closedOk,     \* handles for which Close returned Status(OK)
    reopened,     \* a handle was issued after another one was closed
    listed,       \* DirListing handle -> [pages, eof] returned so far
    \* ---- two connections of one server (specification SpecPair)
    peerPc,       \* connection -> "idle" or "closed"
    peerState,    \* handler -> [sftp_session, handles, streams]
    peerNext,     \* the handle generator
    peerIssued,   \* connection -> the handle strings issued on it
    peerLast      \* [conn, frame, resp] of the last callback

codecVars == <<decoder, original, buffer, decoded, codecPc>>

connVars ==
    <<pc, sftp_session, handles, streams, nextHandle, started, out,
      frame, request, resp, storageCalled, auths, authResult>>

histVars == <<created, issuedCount, closedOk, reopened, listed>>

peerVars == <<peerPc, peerState, peerNext, peerIssued, peerLast>>

vars == <<codecVars, connVars, histVars, peerVars>>

-----------------------------------------------------------------------------
(* Bounds *)

\* longest handle / path / data blob put into an encoded request
MaxStrLen == 2

-----------------------------------------------------------------------------
(* Wire primitives *)

NoRequest == [type |-> "None"]

Ok(r) == [err |-> "None", req |-> r]

Fail(e) == [err |-> e, req |-> NoRequest]

RECURSIVE BigEndian(_)
\* the value of a big-endian byte string
BigEndian(bs) ==
    IF bs = <<>> THEN 0
    ELSE BigEndian(SubSeq(bs, 1, Len(bs) - 1)) * 256 + bs[Len(bs)]

Drop(b, n) == SubSeq(b, n + 1, Len(b))

\* BufMut::put_u8 / put_u32 / put_u64 / put_slice as the decoders' tests use them
put_u8(n) == <<n % 256>>

put_u32(n) ==
    <<(n \div 16777216) % 256, (n \div 65536) % 256, (n \div 256) % 256, n % 256>>

put_u64(n) == <<0, 0, 0, 0>> \o put_u32(n)

\* TryBufMut::try_put_str: a 4-byte big-endian length, then the bytes
try_put_str(s) == put_u32(Len(s)) \o s

\* TryBuf: every read checks the bytes remaining and fails with BadMessage
try_get_u8(b) ==
    IF Len(b) < 1 THEN [err |-> "BadMessage", val |-> 0, rest |-> b]
    ELSE [err |-> "None", val |-> b[1], rest |-> Drop(b, 1)]

try_get_u32(b) ==
    IF Len(b) < 4 THEN [err |-> "BadMessage", val |-> 0, rest |-> b]
    ELSE [err |-> "None", val |-> BigEndian(SubSeq(b, 1, 4)), rest |-> Drop(b, 4)]

try_get_u64(b) ==
    IF Len(b) < 8 THEN [err |-> "BadMessage", val |-> 0, rest |-> b]
    ELSE [err |-> "None", val |-> BigEndian(SubSeq(b, 1, 8)), rest |-> Drop(b, 8)]

try_get_bytes(b, n) ==
    IF Len(b) < n THEN [err |-> "BadMessage", val |-> <<>>, rest |-> b]
    ELSE [err |-> "None", val |-> SubSeq(b, 1, n), rest |-> Drop(b, n)]

try_get_string(b) ==
    LET len == try_get_u32(b)
    IN  IF len.err # "None" THEN [err |-> len.err, val |-> <<>>, rest |-> b]
        ELSE try_get_bytes(len.rest, len.val)

-----------------------------------------------------------------------------
(* Request decoders *)

\* a decoder that reads the version as a four-byte integer
Init_try_from_WideVersion(init_bytes) ==
    LET version == try_get_u32(init_bytes)
    IN  IF version.err # "None" THEN Fail(version.err)
        ELSE Ok([type |-> "Init", version |-> version.val])

\* protocol/request/init.rs
Init_try_from(init_bytes) ==
    LET version == try_get_u8(init_bytes)
    IN  IF version.err # "None" THEN Fail(version.err)
        ELSE Ok([type |-> "Init", version |-> version.val])

\* protocol/request/handle.rs
Handle_try_from(handle_bytes) ==
    LET id     == try_get_u32(handle_bytes)
        handle == try_get_string(id.rest)
    IN  IF id.err # "None" THEN Fail(id.err)
        ELSE IF handle.err # "None" THEN Fail(handle.err)
        ELSE Ok([type |-> "Handle", id |-> id.val, handle |-> handle.val])

\* a decoder that reads the offset as four bytes
Write_try_from_ShortOffset(item) ==
    LET id          == try_get_u32(item)
        handle      == try_get_string(id.rest)
        offset      == try_get_u32(handle.rest)
        data_length == try_get_u32(offset.rest)
        data        == try_get_bytes(data_length.rest, data_length.val)
    IN  IF id.err # "None" THEN Fail(id.err)
        ELSE IF handle.err # "None" THEN Fail(handle.err)
        ELSE IF offset.err # "None" THEN Fail(offset.err)
        ELSE IF data_length.err # "None" THEN Fail(data_length.err)
        ELSE IF data.err # "None" THEN Fail(data.err)
        ELSE Ok([type |-> "Write", id |-> id.val, handle |-> handle.val,
                 offset |-> offset.val, data |-> data.val])

\* request/write.rs
Write_try_from(item) ==
    LET id          == try_get_u32(item)
        handle      == try_get_string(id.rest)
        offset      == try_get_u64(handle.rest)
        data_length == try_get_u32(offset.rest)
        data        == try_get_bytes(data_length.rest, data_length.val)
    IN  IF id.err # "None" THEN Fail(id.err)
        ELSE IF handle.err # "None" THEN Fail(handle.err)
        ELSE IF offset.err # "None" THEN Fail(offset.err)
        ELSE IF data_length.err # "None" THEN Fail(data_length.err)
        ELSE IF data.err # "None" THEN Fail(data.err)
        ELSE Ok([type |-> "Write", id |-> id.val, handle |-> handle.val,
                 offset |-> offset.val, data |-> data.val])

\* request/realpath.rs: only the emptiness of the buffer is looked at
Realpath_try_from(item) ==
    IF Len(item) < 1 THEN Fail("BadMessage") ELSE Ok([type |-> "Realpath"])

\* request/status.rs
Status_try_from(item) ==
    IF Len(item) < 1 THEN Fail("BadMessage") ELSE Ok([type |-> "Status"])

\* request/mkdir.rs, rmdir.rs, opendir.rs, fsetstat.rs: the buffer is ignored
Mkdir_try_from(item) == Fail("Unimplemented")

Rmdir_try_from(item) == Fail("Unimplemented")

Opendir_try_from(item) == Fail("Unimplemented")

Fsetstat_try_from(item) == Fail("Unimplemented")

try_from(d, item) ==
    CASE d = "Init"     -> Init_try_from(item)
      [] d = "Handle"   -> Handle_try_from(item)
      [] d = "Write"    -> Write_try_from(item)
      [] d = "Realpath" -> Realpath_try_from(item)
      [] d = "Status"   -> Status_try_from(item)
      [] d = "Mkdir"    -> Mkdir_try_from(item)
      [] d = "Rmdir"    -> Rmdir_try_from(item)
      [] d = "Opendir"  -> Opendir_try_from(item)
      [] d = "Fsetstat" -> Fsetstat_try_from(item)

-----------------------------------------------------------------------------
(* Wire encodings of requests *)

\* the encodings the tests of init.rs, handle.rs and write.rs build
EncodeInit(r) == put_u8(r.version)

EncodeHandle(r) == put_u32(r.id) \o try_put_str(r.handle)

EncodeWrite(r) ==
    put_u32(r.id) \o put_u32(Len(r.handle)) \o r.handle
        \o put_u64(r.offset) \o put_u32(Len(r.data)) \o r.data

\* id, then the length-prefixed path (Realpath, Status, Mkdir, Rmdir, Opendir)
EncodePath(r) == put_u32(r.id) \o try_put_str(r.path)

\* id, handle, and an attribute block with no attribute flag set
EncodeFsetstat(r) == put_u32(r.id) \o try_put_str(r.handle) \o put_u32(0)

Encode(r) ==
    CASE r.type = "Init"     -> EncodeInit(r)
      [] r.type = "Handle"   -> EncodeHandle(r)
      [] r.type = "Write"    -> EncodeWrite(r)
      [] r.type = "Fsetstat" -> EncodeFsetstat(r)
      [] OTHER               -> EncodePath(r)

\* the requests the decoders are tried on
Blobs == {s \in UNION {[1..n -> {97, 98}] : n \in 0..MaxStrLen} : TRUE}

SampleIds == {1, 258}

SampleRequests ==
    [type : {"Init"}, version : {0, 3, 255}]
    \cup [type : {"Handle"}, id : SampleIds, handle : Blobs]
    \cup [type : {"Write"}, id : SampleIds, handle : {<<>>, <<97>>},
          offset : {0, 2, 300}, data : Blobs]
    \cup [type : {"Realpath", "Status", "Mkdir", "Rmdir", "Opendir"},
          id : SampleIds, path : Blobs]
    \cup [type : {"Fsetstat"}, id : SampleIds, handle : {<<>>, <<97>>}]

Prefixes(b) == {SubSeq(b, 1, k) : k \in 0..Len(b)}

-----------------------------------------------------------------------------
(* SpecCodec: one decoder applied to one buffer *)

CodecIdle ==
    /\ decoder = "Init"
    /\ original = [type |-> "Init", version |-> 3]
    /\ buffer = <<>>
    /\ decoded = Fail("NotRun")
    /\ codecPc = "input"

CodecInit ==
    /\ original \in SampleRequests
    /\ decoder = original.type
    /\ buffer \in Prefixes(Encode(original))
    /\ decoded = Fail("NotRun")
    /\ codecPc = "input"

Decode(d) ==
    /\ codecPc = "input"
    /\ decoder = d
    /\ decoded' = try_from(d, buffer)
    /\ codecPc' = "decoded"
    /\ UNCHANGED <<decoder, original, buffer>>
    /\ UNCHANGED <<pc, sftp_session, handles, streams, nextHandle, started, out,
                   frame, request, resp, storageCalled, auths, authResult>>
    /\ UNCHANGED <<created, issuedCount, closedOk, reopened, listed>>
    /\ UNCHANGED <<peerPc, peerState, peerNext, peerIssued, peerLast>>

DecodeInit == Decode("Init")

DecodeHandle == Decode("Handle")

DecodeWrite == Decode("Write")

DecodeRealpath == Decode("Realpath")

DecodeStatus == Decode("Status")

DecodeMkdir == Decode("Mkdir")

DecodeRmdir == Decode("Rmdir")

DecodeOpendir == Decode("Opendir")

DecodeFsetstat == Decode("Fsetstat")

CodecNext ==
    \/ DecodeInit
    \/ DecodeHandle
    \/ DecodeWrite
    \/ DecodeRealpath
    \/ DecodeStatus
    \/ DecodeMkdir
    \/ DecodeRmdir
    \/ DecodeOpendir
    \/ DecodeFsetstat

-----------------------------------------------------------------------------
(* Frames: an opcode byte, then the request's encoding *)

\* how many handles the generator hands out on one connection
MaxHandles == 2

\* how many data frames one connection is handed
MaxFrames == 4

\* how many bytes a write stream takes
MaxWritten == 2

\* how many auth_publickey calls one connection sees
MaxAuths == 2

\* the server's protocol version
ServerVersion == 3

\* the page size Readdir asks storage for
PageSize == 2

\* the opcode numbers of the protocol
Opcode(kind) ==
    CASE kind = "Init"     -> 1
      [] kind = "Open"     -> 3
      [] kind = "Close"    -> 4
      [] kind = "Read"     -> 5
      [] kind = "Write"    -> 6
      [] kind = "Fstat"    -> 8
      [] kind = "Setstat"  -> 9
      [] kind = "Fsetstat" -> 10
      [] kind = "Opendir"  -> 11
      [] kind = "Readdir"  -> 12
      [] kind = "Mkdir"    -> 14
      [] kind = "Rmdir"    -> 15
      [] kind = "Realpath" -> 16
      [] kind = "Symlink"  -> 20
      [] kind = "Extended" -> 200

\* Open: id, path, pflags (1 = read, 2 = write), an empty attribute block
Open_try_from(item) ==
    LET id     == try_get_u32(item)
        path   == try_get_string(id.rest)
        pflags == try_get_u32(path.rest)
        attrs  == try_get_u32(pflags.rest)
    IN  IF id.err # "None" THEN Fail(id.err)
        ELSE IF path.err # "None" THEN Fail(path.err)
        ELSE IF pflags.err # "None" THEN Fail(pflags.err)
        ELSE IF attrs.err # "None" THEN Fail(attrs.err)
        ELSE Ok([type |-> "Open", id |-> id.val, path |-> path.val,
                 write |-> (pflags.val \div 2) % 2 = 1])

\* Read: id, handle, offset, length
Read_try_from(item) ==
    LET id     == try_get_u32(item)
        handle == try_get_string(id.rest)
        offset == try_get_u64(handle.rest)
        len    == try_get_u32(offset.rest)
    IN  IF id.err # "None" THEN Fail(id.err)
        ELSE IF handle.err # "None" THEN Fail(handle.err)
        ELSE IF offset.err # "None" THEN Fail(offset.err)
        ELSE IF len.err # "None" THEN Fail(len.err)
        ELSE Ok([type |-> "Read", id |-> id.val, handle |-> handle.val,
                 offset |-> offset.val, len |-> len.val])

\* Setstat, Symlink, Extended: only the request id is read
Unsupported_try_from(item) ==
    LET id == try_get_u32(item)
    IN  IF id.err # "None" THEN Fail(id.err)
        ELSE Ok([type |-> "Unsupported", id |-> id.val])

\* a decoder's result as the Request variant `kind`
Tagged(kind, d) ==
    IF d.err # "None" THEN d ELSE Ok([kind |-> kind, msg |-> d.req])

\* Request::try_from: the opcode byte selects the decoder of the payload
Request_try_from(data) ==
    LET op      == try_get_u8(data)
        payload == op.rest
    IN  IF op.err # "None" THEN Fail(op.err)
        ELSE CASE op.val = 1   -> Tagged("Init", Init_try_from(payload))
               [] op.val = 3   -> Tagged("Open", Open_try_from(payload))
               [] op.val = 4   -> Tagged("Close", Handle_try_from(payload))
               [] op.val = 5   -> Tagged("Read", Read_try_from(payload))
               [] op.val = 6   -> Tagged("Write", Write_try_from(payload))
               [] op.val = 8   -> Tagged("Fstat", Handle_try_from(payload))
               [] op.val = 9   -> Tagged("Setstat", Unsupported_try_from(payload))
               [] op.val = 10  -> Tagged("Fsetstat", Fsetstat_try_from(payload))
               [] op.val = 11  -> Tagged("Opendir", Opendir_try_from(payload))
               [] op.val = 12  -> Tagged("Readdir", Handle_try_from(payload))
               [] op.val = 14  -> Tagged("Mkdir", Mkdir_try_from(payload))
               [] op.val = 15  -> Tagged("Rmdir", Rmdir_try_from(payload))
               [] op.val = 16  -> Tagged("Realpath", Realpath_try_from(payload))
               [] op.val = 20  -> Tagged("Symlink", Unsupported_try_from(payload))
               [] op.val = 200 -> Tagged("Extended", Unsupported_try_from(payload))
               [] OTHER        -> Fail("Unimplemented")

-----------------------------------------------------------------------------
(* What a client puts on the wire *)

HandleName(n) == <<104, 48 + n>>

HandleNames == {HandleName(n) : n \in 0..(MaxHandles - 1)}

Ids == {1, 2}

ThePath == <<97>>

EncodeOpen(r) ==
    put_u32(r.id) \o try_put_str(r.path)
        \o put_u32(IF r.write THEN 2 ELSE 1) \o put_u32(0)

EncodeRead(r) ==
    put_u32(r.id) \o try_put_str(r.handle) \o put_u64(r.offset) \o put_u32(r.len)

EncodeBody(kind, r) ==
    CASE kind = "Init"  -> EncodeInit(r)
      [] kind = "Open"  -> EncodeOpen(r)
      [] kind = "Read"  -> EncodeRead(r)
      [] kind = "Write" -> EncodeWrite(r)
      [] kind \in {"Close", "Fstat", "Readdir"} -> EncodeHandle(r)
      [] kind = "Fsetstat" -> EncodeFsetstat(r)
      [] kind \in {"Setstat", "Symlink", "Extended"} -> put_u32(r.id)
      [] OTHER -> EncodePath(r)

EncodeFrame(kind, r) == put_u8(Opcode(kind)) \o EncodeBody(kind, r)

\* the well-formed requests of a client, as (kind, fields)
ClientRequests ==
    ({"Init"} \X [version : {3, 4}])
    \cup ({"Open"} \X [id : {1}, path : {ThePath}, write : BOOLEAN])
    \cup ({"Close"} \X [id : Ids, handle : HandleNames])
    \cup ({"Readdir", "Fstat"} \X [id : {1}, handle : HandleNames])
    \cup ({"Read"} \X [id : {1}, handle : HandleNames, offset : {0}, len : {1}])
    \cup ({"Write"} \X [id : {1}, handle : HandleNames, offset : 0..MaxWritten,
                        data : {<<7>>, <<7, 8>>}])
    \cup ({"Fsetstat"} \X [id : Ids, handle : {HandleName(0)}])
    \cup ({"Setstat", "Symlink", "Extended"} \X [id : Ids])
    \cup ({"Opendir", "Mkdir", "Rmdir", "Realpath"} \X [id : {1}, path : {ThePath}])

WellFormedFrames == {EncodeFrame(c[1], c[2]) : c \in ClientRequests}

\* frames cut short, and frames with an opcode of no request type
MalformedFrames ==
    {<<>>, <<1>>, <<4, 0, 0>>, <<4, 0, 0, 0, 1, 0, 0, 0, 2, 104>>,
     <<6, 0, 0, 0, 1, 0, 0, 0, 0, 0, 0>>, <<16>>}

UnknownOpcodeFrames == {<<99>>, <<99, 0, 0, 0, 1>>}

Frames == WellFormedFrames \cup MalformedFrames \cup UnknownOpcodeFrames

\* Request::try_from of every frame a client sends
DecodedFrame == [f \in Frames |-> Request_try_from(f)]

\* the request a client meant by a frame: <<kind, fields>>
ClientRequestOf ==
    [f \in Frames |->
        IF f \in WellFormedFrames
        THEN CHOOSE c \in ClientRequests : EncodeFrame(c[1], c[2]) = f
        ELSE IF f \in UnknownOpcodeFrames THEN <<"Unknown", [id |-> 0]>>
        ELSE <<"Malformed", [id |-> 0]>>]

-----------------------------------------------------------------------------
(* Responses *)

NoResponse == [type |-> "None"]

Status(id, code) == [type |-> "Status", id |-> id, code |-> code]

Version(v) == [type |-> "Version", version |-> v]

HandleResponse(id, h) == [type |-> "Handle", id |-> id, handle |-> h]

Data(id, bytes) == [type |-> "Data", id |-> id, data |-> bytes]

Name(id, files) == [type |-> "Name", id |-> id, files |-> files]

Attrs(id, path) == [type |-> "Attrs", id |-> id, path |-> path]

\* SftpSession::build_invalid_request_message_response(): it takes no argument,
\* so one fixed payload answers every frame that does not decode
build_invalid_request_message_response == Status(0, "BadMessage")

-----------------------------------------------------------------------------
(* Storage *)

NoToken == [some |-> FALSE, at |-> 0]

Token(n) == [some |-> TRUE, at |-> n]

\* the objects under the one prefix, and the bytes of the one object
Listing == <<"x", "y", "z">>

ObjectContent == <<5, 6>>

Min(a, b) == IF a < b THEN a ELSE b

\* ObjectStorage::list_prefix: at most max_results objects from the token on, and
\* a token when the result is incomplete
list_prefix(prefix, continuation_token, max_results) ==
    LET from == IF continuation_token.some THEN continuation_token.at ELSE 0
        to   == Min(from + max_results, Len(Listing))
    IN  [objects |-> SubSeq(Listing, from + 1, to),
         continuation_token |-> IF to < Len(Listing) THEN Token(to) ELSE NoToken]

\* ObjectStorage::get_authorized_keys_fingerprints: nothing for an unknown user
AuthorizedKeys(user) == IF user = "alice" THEN {"fp_alice"} ELSE {}

Users == {"alice", "mallory"}

Fingerprints == {"fp_alice", "fp_other"}

-----------------------------------------------------------------------------
(* SftpSession::handle_request *)

\* a handler that is built with a session already in place
NoSession_Anonymous == [present |-> TRUE, user |-> ""]

NoSession == [present |-> FALSE, user |-> ""]

Session(user) == [present |-> TRUE, user |-> user]

EmptyTable == <<>>

Without(f, h) == [x \in DOMAIN f \ {h} |-> f[x]]

\* a generator that hands out the same string again
AllocHandle_Reuse(next) == HandleName(0)

\* a fresh handle string: the generator never repeats one
AllocHandle(next) == HandleName(next)

Entry(kind, path) == [kind |-> kind, path |-> path, written |-> 0, token |-> NoToken]

Same(r, tbl, str, next, called) ==
    [resp |-> r, handles |-> tbl, streams |-> str, nextHandle |-> next,
     called |-> called]

HasKind(tbl, h, kind) == h \in DOMAIN tbl /\ tbl[h].kind = kind

HandleOpen(m, ok, tbl, str, next) ==
    IF ~ok THEN Same(Status(m.id, "Failure"), tbl, str, next, TRUE)
    ELSE LET h == AllocHandle(next)
             kind == IF m.write THEN "WriteStream" ELSE "ReadStream"
         IN  [resp |-> HandleResponse(m.id, h),
              handles |-> tbl @@ (h :> Entry(kind, m.path)),
              streams |-> str @@ (h :> IF m.write THEN <<>> ELSE ObjectContent),
              nextHandle |-> next + 1,
              called |-> TRUE]

HandleOpendir(m, tbl, str, next) ==
    LET h == AllocHandle(next)
    IN  [resp |-> HandleResponse(m.id, h),
         handles |-> tbl @@ (h :> Entry("DirListing", m.path)),
         streams |-> str @@ (h :> <<>>),
         nextHandle |-> next + 1,
         called |-> FALSE]

HandleClose(m, ok, tbl, str, next) ==
    IF m.handle \notin DOMAIN tbl
    THEN Same(Status(m.id, "InvalidHandle"), tbl, str, next, FALSE)
    ELSE [resp |-> IF tbl[m.handle].kind = "WriteStream" /\ ~ok
                   THEN Status(m.id, "Failure") ELSE Status(m.id, "OK"),
          handles |-> Without(tbl, m.handle),
          streams |-> Without(str, m.handle),
          nextHandle |-> next,
          called |-> tbl[m.handle].kind = "WriteStream"]

HandleRead(m, ok, tbl, str, next) ==
    IF ~HasKind(tbl, m.handle, "ReadStream")
    THEN Same(Status(m.id, "InvalidHandle"), tbl, str, next, FALSE)
    ELSE IF ~ok THEN Same(Status(m.id, "Failure"), tbl, str, next, TRUE)
    ELSE IF str[m.handle] = <<>> THEN Same(Status(m.id, "EOF"), tbl, str, next, TRUE)
    ELSE LET n == Min(m.len, Len(str[m.handle]))
         IN  Same(Data(m.id, SubSeq(str[m.handle], 1, n)), tbl,
                  [str EXCEPT ![m.handle] = Drop(@, n)], next, TRUE)

\* a Write that looks the handle up without asking for its kind
HandleWrite_AnyKind(m, ok, tbl, str, next) ==
    IF m.handle \notin DOMAIN tbl
    THEN Same(Status(m.id, "InvalidHandle"), tbl, str, next, FALSE)
    ELSE IF m.offset # tbl[m.handle].written
    THEN Same(Status(m.id, "Failure"), tbl, str, next, FALSE)
    ELSE IF ~ok THEN Same(Status(m.id, "Failure"), tbl, str, next, TRUE)
    ELSE Same(Status(m.id, "OK"),
              [tbl EXCEPT ![m.handle].written = @ + Len(m.data)],
              [str EXCEPT ![m.handle] = @ \o m.data], next, TRUE)

HandleWrite(m, ok, tbl, str, next) ==
    IF ~HasKind(tbl, m.handle, "WriteStream")
    THEN Same(Status(m.id, "InvalidHandle"), tbl, str, next, FALSE)
    ELSE IF m.offset # tbl[m.handle].written
    THEN Same(Status(m.id, "Failure"), tbl, str, next, FALSE)
    ELSE IF ~ok THEN Same(Status(m.id, "Failure"), tbl, str, next, TRUE)
    ELSE Same(Status(m.id, "OK"),
              [tbl EXCEPT ![m.handle].written = @ + Len(m.data)],
              [str EXCEPT ![m.handle] = @ \o m.data], next, TRUE)

HandleReaddir(m, ok, tbl, str, next) ==
    IF ~HasKind(tbl, m.handle, "DirListing")
    THEN Same(Status(m.id, "InvalidHandle"), tbl, str, next, FALSE)
    ELSE IF ~ok THEN Same(Status(m.id, "Failure"), tbl, str, next, TRUE)
    ELSE LET page == list_prefix(tbl[m.handle].path, tbl[m.handle].token, PageSize)
             tbl2 == [tbl EXCEPT ![m.handle].token = page.continuation_token]
         IN  IF page.objects = <<>> /\ ~page.continuation_token.some
             THEN Same(Status(m.id, "EOF"), tbl2, str, next, TRUE)
             ELSE Same(Name(m.id, page.objects), tbl2, str, next, TRUE)

HandleFstat(m, ok, tbl, str, next) ==
    IF m.handle \notin DOMAIN tbl
    THEN Same(Status(m.id, "InvalidHandle"), tbl, str, next, FALSE)
    ELSE IF ~ok THEN Same(Status(m.id, "NoSuchFile"), tbl, str, next, TRUE)
    ELSE Same(Attrs(m.id, tbl[m.handle].path), tbl, str, next, TRUE)

\* ok: whether the storage call the request makes, if any, succeeds
handle_request(req, ok, tbl, str, next) ==
    CASE req.kind = "Init"     -> Same(Version(ServerVersion), tbl, str, next, FALSE)
      [] req.kind = "Open"     -> HandleOpen(req.msg, ok, tbl, str, next)
      [] req.kind = "Opendir"  -> HandleOpendir(req.msg, tbl, str, next)
      [] req.kind = "Close"    -> HandleClose(req.msg, ok, tbl, str, next)
      [] req.kind = "Read"     -> HandleRead(req.msg, ok, tbl, str, next)
      [] req.kind = "Write"    -> HandleWrite(req.msg, ok, tbl, str, next)
      [] req.kind = "Readdir"  -> HandleReaddir(req.msg, ok, tbl, str, next)
      [] req.kind = "Fstat"    -> HandleFstat(req.msg, ok, tbl, str, next)
      [] req.kind = "Realpath" -> Same(Name(0, <<"/">>), tbl, str, next, FALSE)
      [] req.kind \in {"Setstat", "Symlink", "Extended"}
                               -> Same(Status(req.msg.id, "OpUnsupported"),
                                       tbl, str, next, FALSE)

-----------------------------------------------------------------------------
(* One connection *)

FreshHistory ==
    /\ created' = <<>>
    /\ issuedCount' = 0
    /\ closedOk' = {}
    /\ reopened' = FALSE
    /\ listed' = <<>>

\* Server::new: the handler of a new connection has no session
ConnInit ==
    /\ pc = "idle"
    /\ sftp_session = NoSession
    /\ handles = EmptyTable
    /\ streams = <<>>
    /\ nextHandle = 0
    /\ started = 0
    /\ out = <<>>
    /\ frame = <<>>
    /\ request = Fail("NotRun")
    /\ resp = NoResponse
    /\ storageCalled = FALSE
    /\ auths = 0
    /\ authResult = "None"
    /\ created = <<>>
    /\ issuedCount = 0
    /\ closedOk = {}
    /\ reopened = FALSE
    /\ listed = <<>>

\* a transport that calls back while a future of the handler is still pending
HandlerAvailable_Reentrant == pc \in {"idle", "handling"}

\* the handler is moved into the future a callback returns: the transport has it
\* back, and can call the next callback, only when that future has completed
HandlerAvailable == pc = "idle"

\* an auth_publickey that takes an empty list of fingerprints for an error
AuthPublickey_ErrOnNoKeys(user, fingerprint, lookupOk) ==
    /\ HandlerAvailable
    /\ auths < MaxAuths
    /\ auths' = auths + 1
    /\ IF ~lookupOk \/ AuthorizedKeys(user) = {}
       THEN /\ authResult' = "Error"
            /\ pc' = "closed"
            /\ UNCHANGED <<sftp_session, handles, streams, histVars>>
       ELSE IF fingerprint \in AuthorizedKeys(user)
       THEN /\ authResult' = "Accept"
            /\ sftp_session' = Session(user)
            /\ handles' = EmptyTable
            /\ streams' = <<>>
            /\ FreshHistory
            /\ UNCHANGED pc
       ELSE /\ authResult' = "Reject"
            /\ UNCHANGED <<pc, sftp_session, handles, streams, histVars>>
    /\ UNCHANGED <<nextHandle, started, out, frame, request, resp,
                   storageCalled, codecVars, peerVars>>

\* DraySshServer::auth_publickey
AuthPublickey(user, fingerprint, lookupOk) ==
    /\ HandlerAvailable
    /\ auths < MaxAuths
    /\ auths' = auths + 1
    /\ IF ~lookupOk
       THEN /\ authResult' = "Error"
            /\ pc' = "closed"
            /\ UNCHANGED <<sftp_session, handles, streams, histVars>>
       ELSE IF fingerprint \in AuthorizedKeys(user)
       THEN /\ authResult' = "Accept"
            /\ sftp_session' = Session(user)
            /\ handles' = EmptyTable
            /\ streams' = <<>>
            /\ FreshHistory
            /\ UNCHANGED pc
       ELSE /\ authResult' = "Reject"
            /\ UNCHANGED <<pc, sftp_session, handles, streams, histVars>>
    /\ UNCHANGED <<nextHandle, started, out, frame, request, resp,
                   storageCalled, codecVars, peerVars>>

\* the requests the bounds of the model leave room for
WithinBounds(d) ==
    IF d.err # "None" THEN TRUE
    ELSE /\ d.req.kind \in {"Open", "Opendir"} => nextHandle < MaxHandles
         /\ d.req.kind = "Write" /\ HasKind(handles, d.req.msg.handle, "WriteStream")
              => handles[d.req.msg.handle].written + Len(d.req.msg.data) <= MaxWritten

\* Handler::data up to the call of handle_request: a frame that does not decode
\* is answered at once, a request with no session ends the connection
DataStart(f) ==
    LET d == DecodedFrame[f]
    IN  /\ HandlerAvailable
        /\ started < MaxFrames
        /\ WithinBounds(d)
        /\ started' = started + 1
        /\ frame' = f
        /\ request' = d
        /\ IF d.err # "None"
           THEN /\ resp' = build_invalid_request_message_response
                /\ out' = Append(out, started + 1)
                /\ storageCalled' = FALSE
                /\ UNCHANGED pc
           ELSE IF ~sftp_session.present
           THEN /\ pc' = "closed"
                /\ UNCHANGED <<resp, out, storageCalled>>
           ELSE /\ pc' = "handling"
                /\ UNCHANGED <<resp, out, storageCalled>>
        /\ UNCHANGED <<sftp_session, handles, streams, nextHandle, auths,
                       authResult, created, issuedCount, closedOk, reopened, listed>>
        /\ UNCHANGED <<codecVars, peerVars>>

\* DraySshServer::data from the return of handle_request on
DataFinish(ok) ==
    LET req == request.req
        sent == ClientRequestOf[frame]
        r   == handle_request(req, ok, handles, streams, nextHandle)
        issued == r.resp.type = "Handle"
    IN  /\ pc = "handling"
        /\ pc' = "idle"
        /\ resp' = r.resp
        /\ handles' = r.handles
        /\ streams' = r.streams
        /\ nextHandle' = r.nextHandle
        /\ storageCalled' = r.called
        /\ out' = Append(out, started)
        /\ created' = IF issued
                      THEN created @@ (r.resp.handle :> r.handles[r.resp.handle].kind)
                      ELSE created
        /\ issuedCount' = IF issued THEN issuedCount + 1 ELSE issuedCount
        /\ reopened' = (reopened \/ (issued /\ closedOk # {}))
        /\ closedOk' = IF sent[1] = "Close" /\ r.resp.type = "Status"
                          /\ r.resp.code = "OK"
                       THEN closedOk \cup {sent[2].handle} ELSE closedOk
        /\ listed' =
             IF issued /\ sent[1] = "Opendir"
             THEN listed @@ (r.resp.handle :> [pages |-> <<>>, eof |-> FALSE])
             ELSE IF sent[1] = "Readdir" /\ r.resp.type = "Name"
             THEN [listed EXCEPT ![sent[2].handle].pages = @ \o r.resp.files]
             ELSE IF sent[1] = "Readdir" /\ r.resp.type = "Status"
                     /\ r.resp.code = "EOF"
             THEN [listed EXCEPT ![sent[2].handle].eof = TRUE]
             ELSE listed
        /\ UNCHANGED <<sftp_session, started, frame, request, auths, authResult>>
        /\ UNCHANGED <<codecVars, peerVars>>

\* the connection ends: the transport drops the handler.  impl Handler overrides
\* no callback for the end of a channel or of the connection, so no code of the
\* server closes a handle or flushes a stream
Disconnect ==
    /\ HandlerAvailable
    /\ pc' = "closed"
    /\ UNCHANGED <<sftp_session, handles, streams, nextHandle, started, out,
                   frame, request, resp, storageCalled, auths, authResult>>
    /\ UNCHANGED <<histVars, codecVars, peerVars>>

Auth == \E u \in Users, k \in Fingerprints, ok \in BOOLEAN : AuthPublickey(u, k, ok)

Start == \E f \in Frames : DataStart(f)

Finish == \E ok \in BOOLEAN : DataFinish(ok)

Next ==
    \/ Auth
    \/ Start
    \/ Finish
    \/ Disconnect

-----------------------------------------------------------------------------
(* Two connections of one server *)

Conns == {1, 2}

\* a server that hands every connection the handler state of the first
SessionOf_Shared(c) == 1

\* Server::new builds the handler of a connection with an sftp_session of its
\* own: the session a connection's callbacks work on is that connection's
SessionOf(c) == c

NoPeerState == [sftp_session |-> NoSession, handles |-> EmptyTable, streams |-> <<>>]

PeerCall(c, f, r) == [conn |-> c, frame |-> f, resp |-> r]

PeerInit ==
    /\ peerPc = [c \in Conns |-> "idle"]
    /\ peerState = [c \in Conns |-> NoPeerState]
    /\ peerNext = 0
    /\ peerIssued = [c \in Conns |-> {}]
    /\ peerLast = PeerCall(0, <<>>, NoResponse)

\* the frames sent on the two connections
PeerFrames ==
    {EncodeFrame(c[1], c[2]) :
        c \in {x \in ClientRequests :
                  /\ x[1] \in {"Open", "Close", "Write"}
                  /\ x[2] \in [id : {1}, handle : HandleNames] \/ x[1] # "Close"
                  /\ x[1] = "Write" => (x[2].offset = 0 /\ x[2].data = <<7>>)}}
    \cup {<<4, 0, 0>>}

\* DraySshServer::auth_publickey on connection c
PeerAuthPublickey(c, user, fingerprint, lookupOk) ==
    /\ peerPc[c] = "idle"
    /\ IF ~lookupOk
       THEN /\ peerPc' = [peerPc EXCEPT ![c] = "closed"]
            /\ UNCHANGED peerState
       ELSE IF fingerprint \in AuthorizedKeys(user)
       THEN /\ peerState' = [peerState EXCEPT ![SessionOf(c)] =
                                [sftp_session |-> Session(user),
                                 handles |-> EmptyTable, streams |-> <<>>]]
            /\ UNCHANGED peerPc
       ELSE UNCHANGED <<peerPc, peerState>>
    /\ peerLast' = PeerCall(c, <<>>, NoResponse)
    /\ UNCHANGED <<peerNext, peerIssued>>
    /\ UNCHANGED <<codecVars, connVars, histVars>>

\* the requests the bounds of the model leave room for
PeerWithinBounds(d, tbl) ==
    IF d.err # "None" THEN TRUE
    ELSE /\ d.req.kind = "Open" => peerNext < MaxHandles
         /\ d.req.kind = "Write" /\ HasKind(tbl, d.req.msg.handle, "WriteStream")
              => tbl[d.req.msg.handle].written + Len(d.req.msg.data) <= MaxWritten

\* Handler::data and DraySshServer::data on connection c, from the frame to the
\* payload given to the transport
PeerData(c, f, ok) ==
    LET d  == DecodedFrame[f]
        st == peerState[SessionOf(c)]
        r  == handle_request(d.req, ok, st.handles, st.streams, peerNext)
    IN  /\ peerPc[c] = "idle"
        /\ PeerWithinBounds(d, st.handles)
        /\ IF d.err # "None"
           THEN /\ peerLast' = PeerCall(c, f, build_invalid_request_message_response)
                /\ UNCHANGED <<peerPc, peerState, peerNext, peerIssued>>
           ELSE IF ~st.sftp_session.present
           THEN /\ peerPc' = [peerPc EXCEPT ![c] = "closed"]
                /\ peerLast' = PeerCall(c, f, NoResponse)
                /\ UNCHANGED <<peerState, peerNext, peerIssued>>
           ELSE /\ peerState' = [peerState EXCEPT ![SessionOf(c)] =
                                    [sftp_session |-> st.sftp_session,
                                     handles |-> r.handles, streams |-> r.streams]]
                /\ peerNext' = r.nextHandle
                /\ peerIssued' = IF r.resp.type = "Handle"
                                 THEN [peerIssued EXCEPT ![c] = @ \cup {r.resp.handle}]
                                 ELSE peerIssued
                /\ peerLast' = PeerCall(c, f, r.resp)
                /\ UNCHANGED peerPc
        /\ UNCHANGED <<codecVars, connVars, histVars>>

PeerAuth ==
    \E c \in Conns, u \in Users, k \in Fingerprints, ok \in BOOLEAN :
        PeerAuthPublickey(c, u, k, ok)

PeerRequest == \E c \in Conns, f \in PeerFrames, ok \in BOOLEAN : PeerData(c, f, ok)

PairNext ==
    \/ PeerAuth
    \/ PeerRequest

-----------------------------------------------------------------------------
(* Specifications *)

Init == CodecIdle /\ ConnInit /\ PeerInit

Spec == Init /\ [][Next]_vars

\* the decoders alone: the connections stay as they were created
CodecSpecInit == CodecInit /\ ConnInit /\ PeerInit

SpecCodec == CodecSpecInit /\ [][CodecNext]_vars

\* two connections of one server
PairInit == CodecIdle /\ ConnInit /\ PeerInit

SpecPair == PairInit /\ [][PairNext]_vars

-----------------------------------------------------------------------------
(* Properties *)

\* the request the client meant by the frame last handed to Handler::data
Sent == ClientRequestOf[frame]

SentKind == Sent[1]

SentMsg == Sent[2]

HandleKinds == {"Close", "Read", "Write", "Readdir", "Fstat"}

\* the resource kind a request needs its handle to have
KindFor(kind) ==
    CASE kind = "Read"    -> "ReadStream"
      [] kind = "Write"   -> "WriteStream"
      [] kind = "Readdir" -> "DirListing"

\* C1: the payloads given to the transport are those of frames 1, 2, 3, ... in
\* that order, and a frame is handed to the handler only when the response to
\* the frame before it has been given to the transport.
C1_ResponsesInArrivalOrder ==
    /\ \A i \in 1..Len(out) : out[i] = i
    /\ started <= Len(out) + 1
    /\ pc = "idle" => started = Len(out)

\* a third frame is suspended in its storage call after two responses, the
\* last of them to a frame that did not decode
C1_Witness ==
    /\ pc = "handling"
    /\ Len(out) >= 2
    /\ resp = build_invalid_request_message_response

\* C2: once Close(h) was answered Status(OK), every later request of the session
\* that names h is answered with the invalid-handle status.
C2_ClosedHandleStaysInvalid ==
    [][(/\ pc = "handling"
        /\ SentKind \in HandleKinds
        /\ SentMsg.handle \in closedOk)
          => resp' = Status(SentMsg.id, "InvalidHandle")]_vars

\* a Write names a closed handle after another handle was opened, and is refused
C2_Witness ==
    /\ pc = "idle"
    /\ SentKind = "Write"
    /\ SentMsg.handle \in closedOk
    /\ reopened
    /\ DOMAIN handles # {}
    /\ resp = Status(SentMsg.id, "InvalidHandle")

\* C3: the handles a session has issued are pairwise distinct, only issued and
\* not yet closed handles are in the table, and the table is empty once every
\* issued handle has been closed.
C3_DistinctHandlesEmptyTable ==
    /\ Cardinality(DOMAIN created) = issuedCount
    /\ DOMAIN handles \subseteq DOMAIN created
    /\ DOMAIN handles \cap closedOk = {}
    /\ DOMAIN created \subseteq closedOk => DOMAIN handles = {}

\* two handles were issued, the second after the first was closed, and both
\* are closed
C3_Witness ==
    /\ issuedCount = 2
    /\ reopened
    /\ DOMAIN created \subseteq closedOk
    /\ DOMAIN handles = {}

\* C4: a client that opens a prefix with a well-formed Opendir is given a
\* handle, and the Name pages Readdir returns on that handle up to Status(EOF)
\* are, concatenated, the complete listing of the prefix.
C4_ReaddirListsPrefixOnce ==
    /\ (pc = "idle" /\ sftp_session.present /\ SentKind = "Opendir")
          => resp.type = "Handle"
    /\ \A h \in DOMAIN listed : listed[h].eof => listed[h].pages = Listing

\* the Write in flight names an open write stream
WriteOnOpenStream ==
    /\ pc = "handling"
    /\ SentKind = "Write"
    /\ HasKind(handles, SentMsg.handle, "WriteStream")

KindKept == \A h \in DOMAIN handles : handles[h].kind = created[h]

\* the request in flight names an open handle of another kind than it needs
WrongKind ==
    /\ pc = "handling"
    /\ SentKind \in {"Read", "Write", "Readdir"}
    /\ SentMsg.handle \in DOMAIN handles
    /\ handles[SentMsg.handle].kind # KindFor(SentKind)

\* C6: an open handle has the kind it was created with, and a Read, Write or
\* Readdir that names a handle of another kind is answered with the
\* invalid-handle status and changes neither the handle table nor the streams.
C6_KindNeverChanges ==
    /\ []KindKept
    /\ [][WrongKind =>
            /\ resp' = Status(SentMsg.id, "InvalidHandle")
            /\ handles' = handles
            /\ streams' = streams]_vars

\* a Write that names an open read stream was refused
C6_Witness ==
    /\ pc = "idle"
    /\ SentKind = "Write"
    /\ HasKind(handles, SentMsg.handle, "ReadStream")
    /\ resp = Status(SentMsg.id, "InvalidHandle")
    /\ streams[SentMsg.handle] = ObjectContent

\* the decoders that read their buffer
ParsingDecoders == {"Init", "Handle", "Write", "Realpath"}

\* C7: a buffer that is a strict prefix of a request's encoding, the empty
\* buffer included, is decoded to BadMessage by that request's decoder (stated
\* for the decoders that read their buffer).
C7_ShortBufferIsBadMessage ==
    (/\ codecPc = "decoded"
     /\ decoder \in ParsingDecoders
     /\ Len(buffer) < Len(Encode(original)))
        => decoded = Fail("BadMessage")

\* C8: decoding the encoding of a request returns the request, with every
\* field (stated for the decoders that read their buffer).
C8_DecodeEncodeRoundTrip ==
    (/\ codecPc = "decoded"
     /\ decoder \in ParsingDecoders
     /\ buffer = Encode(original))
        => decoded = Ok(original)

\* C9: a frame with an unknown opcode is decoded to Unimplemented, a malformed
\* frame to BadMessage, and the status code sent for the one differs from the
\* status code sent for the other.
C9_UnimplementedDiffersFromBadMessage ==
    [][(/\ pc = "idle"
        /\ started' = started + 1
        /\ frame \in MalformedFrames
        /\ frame' \in UnknownOpcodeFrames)
          => /\ request.err = "BadMessage"
             /\ request'.err = "Unimplemented"
             /\ resp'.code # resp.code]_vars

\* C10: in a session, a Setstat, Fsetstat, Symlink or Extended request is
\* answered with Status(OpUnsupported) carrying its id, without a storage call,
\* and the connection stays open.
C10_UnsupportedAnswered ==
    (/\ sftp_session.present
     /\ pc # "handling"
     /\ SentKind \in {"Setstat", "Fsetstat", "Symlink", "Extended"})
        => /\ pc = "idle"
           /\ resp = Status(SentMsg.id, "OpUnsupported")
           /\ ~storageCalled

\* C11: every data frame handed to the handler is answered with exactly one
\* payload and leaves the connection open; a frame that does not decode is
\* answered with a Status response.
C11_EveryFrameAnswered ==
    [][/\ started' = started + 1 =>
            /\ pc' # "closed"
            /\ pc' = "idle" => (Len(out') = started' /\ resp'.type = "Status")
       /\ pc = "handling" => (pc' = "idle" /\ Len(out') = started)]_vars

\* C12: once a connection has ended, no handle of its session is left in the
\* table and no storage stream opened by that session is left open.
C12_TeardownClosesHandles ==
    pc = "closed" => (handles = EmptyTable /\ streams = <<>>)

\* an auth_publickey call for a user storage does not know
UnknownUserAuth(k, ok) ==
    \E u \in Users : AuthorizedKeys(u) = {} /\ AuthPublickey(u, k, ok)

\* an auth_publickey call for a known user with a key that is not authorized
UnauthorizedKeyAuth(k, ok) ==
    \E v \in Users :
        /\ AuthorizedKeys(v) # {}
        /\ k \notin AuthorizedKeys(v)
        /\ AuthPublickey(v, k, ok)

C14_InitAnsweredWithServerVersion ==
    (/\ sftp_session.present
     /\ pc # "handling"
     /\ SentKind = "Init")
        => /\ request = Ok([kind |-> "Init",
                            msg |-> [type |-> "Init", version |-> SentMsg.version]])
           /\ resp = Version(ServerVersion)
           /\ resp.version <= ServerVersion

\* an Init that carries a version above the server's was answered
C14_Witness ==
    /\ sftp_session.present
    /\ pc = "idle"
    /\ SentKind = "Init"
    /\ SentMsg.version > ServerVersion
    /\ resp = Version(ServerVersion)

\* C15: once a connection has a session, no step changes the session's user,
\* and no auth_publickey call changes its handle table.
C15_SessionNeverReplaced ==
    [][sftp_session.present =>
          /\ sftp_session' = sftp_session
          /\ auths' = auths + 1 => (handles' = handles /\ streams' = streams)]_vars

\* the handle table the callbacks of connection c work on
TableOf(c) == peerState[SessionOf(c)].handles

\* the request the client meant by the frame of the last callback
PeerSent == ClientRequestOf[peerLast.frame]

\* a callback of connection c has just returned
CallOn(c) == peerLast'.conn = c

\* C16: with two connections, no handle issued on one connection is in the
\* table of the other; a request that names a handle issued on the other
\* connection is answered with the invalid-handle status; and a callback of one
\* connection leaves the session and the table of the other as they were.
C16_SessionsShareNothing ==
    /\ [](\A c, d \in Conns : c # d => DOMAIN TableOf(d) \cap peerIssued[c] = {})
    /\ [][\A c, d \in Conns :
            (c # d /\ CallOn(d)) =>
                /\ peerState'[SessionOf(c)] = peerState[SessionOf(c)]
                /\ (/\ peerLast'.frame \in WellFormedFrames
                    /\ peerState[SessionOf(d)].sftp_session.present
                    /\ ClientRequestOf[peerLast'.frame][1] \in HandleKinds
                    /\ ClientRequestOf[peerLast'.frame][2].handle \in peerIssued[c])
                      => peerLast'.resp =
                            Status(ClientRequestOf[peerLast'.frame][2].id,
                                   "InvalidHandle")]_vars

\* connection 2, with a handle of its own open, named a handle that is open on
\* connection 1 and was refused
C16_Witness ==
    /\ peerLast.conn = 2
    /\ peerLast.frame \in WellFormedFrames
    /\ PeerSent[1] \in {"Close", "Write"}
    /\ PeerSent[2].handle \in DOMAIN peerState[1].handles
    /\ PeerSent[2].handle \in peerIssued[1]
    /\ DOMAIN peerState[2].handles # {}
    /\ peerLast.resp = Status(PeerSent[2].id, "InvalidHandle")

\* C17: while a request of the session is suspended in handle_request, the only
\* step of the connection is the completion of that request: no other frame is
\* handed to the handler, and no auth_publickey call runs or replaces the
\* session, before its response has been given to the transport.
C17_OneRequestInFlight ==
    [][pc = "handling" =>
          /\ pc' = "idle"
          /\ started' = started
          /\ auths' = auths
          /\ sftp_session' = sftp_session
          /\ out' = Append(out, started)]_vars

\* a Write is suspended on its storage call while the transport has further
\* frames and a further authentication request to deliver
C17_Witness ==
    /\ pc = "handling"
    /\ request.req.kind = "Write"
    /\ HasKind(handles, request.req.msg.handle, "WriteStream")
    /\ started < MaxFrames
    /\ auths < MaxAuths

\* C18: in a session, a well-formed Mkdir or Rmdir request is decoded, makes
\* its storage call and is answered with a Status carrying its id, never with
\* the invalid-request response.
C18_DirectoryRequestsReachStorage ==
    (/\ sftp_session.present
     /\ pc # "handling"
     /\ SentKind \in {"Mkdir", "Rmdir"})
        => /\ request.err = "None"
           /\ storageCalled
           /\ resp.type = "Status"
           /\ resp.id = SentMsg.id
           /\ resp # build_invalid_request_message_response

\* C19: in a session, a well-formed Realpath request with a path that is not
\* empty is decoded to a request that keeps its id and its whole path, and is
\* answered with a Name response of one entry carrying its id.
C19_RealpathKeepsPath ==
    (/\ sftp_session.present
     /\ pc # "handling"
     /\ SentKind = "Realpath"
     /\ SentMsg.path # <<>>)
        => /\ request = Ok([kind |-> "Realpath",
                            msg |-> [type |-> "Realpath", id |-> SentMsg.id,
                                     path |-> SentMsg.path]])
           /\ resp.type = "Name"
           /\ resp.id = SentMsg.id
           /\ Len(resp.files) = 1

\* C20: a connection has no session before its first auth_publickey call; the
\* session changes only in an auth_publickey call that returns Auth::Accept, so
\* a rejected call and a call whose fingerprint lookup fails leave it absent;
\* and a request that decodes while there is no session is not handed to
\* handle_request and reaches neither storage nor a handle table.
C20_SessionOnlyAfterAccept ==
    /\ [](auths = 0 => ~sftp_session.present)
    /\ [](~sftp_session.present =>
            (handles = EmptyTable /\ streams = <<>> /\ ~storageCalled))
    /\ [][/\ sftp_session' # sftp_session =>
                (auths' = auths + 1 /\ authResult' = "Accept")
          /\ (auths' = auths + 1 /\ authResult' # "Accept") =>
                sftp_session' = sftp_session
          /\ (~sftp_session.present /\ started' = started + 1) =>
                /\ pc' # "handling"
                /\ ~storageCalled'
                /\ handles' = handles
                /\ streams' = streams]_vars

\* after a rejected authentication a well-formed Open arrived with no session:
\* it was not dispatched
C20_Witness ==
    /\ authResult = "Reject"
    /\ ~sftp_session.present
    /\ started = 1
    /\ request.err = "None"
    /\ SentKind = "Open"
    /\ pc = "closed"
    /\ ~storageCalled

=============================================================================
